---- MODULE Spec2Model ----
(***************************************************************************)
(* Model of word_cloud.py: a Streamlit script that extracts text from an   *)
(* uploaded file, filters stopwords, hands the text to the WordCloud       *)
(* layout engine, sorts the engine's word->weight mapping into a frequency *)
(* table, and builds two base64 data-URI download links.                   *)
(*                                                                         *)
(* A Python str is a sequence of one-character strings; bytes are a        *)
(* sequence of integers 0..255; a weight w stands for the float w / 100.   *)
(***************************************************************************)
EXTENDS Integers, Sequences, FiniteSets, TLC

\* ------------------------------------------------------------ bounds
MaxTextLen == 4
MaxStopLen == 3
MaxRows == 2
MaxParts == 2
MaxWords == 3

\* ------------------------------------------------------- str helpers
\* str.isspace for the characters of the model's alphabets
IsSpace(c) == c \in {" ", "\n", "\t"}

\* str.lower, one character
LowerChar(c) ==
  CASE c = "A" -> "a"
    [] c = "B" -> "b"
    [] c = "T" -> "t"
    [] OTHER -> c

\* str.lower
lower(s) == [i \in 1..Len(s) |-> LowerChar(s[i])]

RECURSIVE split_acc(_, _, _)
split_acc(s, cur, out) ==
  IF s = <<>>
  THEN IF cur = <<>> THEN out ELSE Append(out, cur)
  ELSE IF IsSpace(Head(s))
  THEN split_acc(Tail(s), <<>>, IF cur = <<>> THEN out ELSE Append(out, cur))
  ELSE split_acc(Tail(s), Append(cur, Head(s)), out)

\* str.split() with no separator: runs of whitespace separate, no empty tokens
split(s) == split_acc(s, <<>>, <<>>)

RECURSIVE split_sep_acc(_, _, _, _)
split_sep_acc(s, sep, cur, out) ==
  IF s = <<>>
  THEN Append(out, cur)
  ELSE IF Head(s) = sep
  THEN split_sep_acc(Tail(s), sep, <<>>, Append(out, cur))
  ELSE split_sep_acc(Tail(s), sep, Append(cur, Head(s)), out)

\* str.split(sep): every separator splits, empty fields are kept
split_sep(s, sep) == split_sep_acc(s, sep, <<>>, <<>>)

RECURSIVE lstrip(_)
lstrip(s) == IF s # <<>> /\ IsSpace(Head(s)) THEN lstrip(Tail(s)) ELSE s

RECURSIVE rstrip(_)
rstrip(s) ==
  IF s # <<>> /\ IsSpace(s[Len(s)]) THEN rstrip(SubSeq(s, 1, Len(s) - 1)) ELSE s

\* str.strip()
strip(s) == rstrip(lstrip(s))

RECURSIVE join(_, _)
\* sep.join(parts)
join(sep, parts) ==
  IF parts = <<>> THEN <<>>
  ELSE IF Len(parts) = 1 THEN parts[1]
  ELSE parts[1] \o sep \o join(sep, Tail(parts))

\* set(list)
ToSet(seq) == {seq[i] : i \in 1..Len(seq)}

\* all strings over alphabet A of length at most n
StrsUpTo(A, n) == UNION {[1..k -> A] : k \in 0..n}

\* -------------------------------------------------- stopword filter
\* wordcloud.STOPWORDS: the library's lowercase default set (here: two of its members)
STOPWORDS == {<<"a">>, <<"t", "a">>}

\* filter_stopwords comparing each word as written, without word.lower()
filter_stopwords_rawcase(text, additional_stopwords) ==
  LET words == split(text)
      allstopwords == STOPWORDS \cup ToSet(additional_stopwords)
      filtered_words == SelectSeq(words, LAMBDA word : word \notin allstopwords)
  IN join(<<" ">>, filtered_words)

\* filter_stopwords comparing each word as written and returning it lowercased
filter_stopwords_lowered(text, additional_stopwords) ==
  LET words == split(text)
      allstopwords == STOPWORDS \cup ToSet(additional_stopwords)
      kept == SelectSeq(words, LAMBDA word : word \notin allstopwords)
      filtered_words == [i \in 1..Len(kept) |-> lower(kept[i])]
  IN join(<<" ">>, filtered_words)

\* filter_stopwords, lines 40-44
filter_stopwords(text, additional_stopwords) ==
  LET words == split(text)
      allstopwords == STOPWORDS \cup ToSet(additional_stopwords)
      filtered_words == SelectSeq(words, LAMBDA word : lower(word) \notin allstopwords)
  IN join(<<" ">>, filtered_words)

\* ------------------------------------------------------- extractors
\* printable ASCII, Ascii[i] has code i + 31
Ascii ==
  << " ", "!", "\"", "#", "$", "%", "&", "'", "(", ")", "*", "+", ",", "-", ".", "/",
     "0", "1", "2", "3", "4", "5", "6", "7", "8", "9", ":", ";", "<", "=", ">", "?",
     "@", "A", "B", "C", "D", "E", "F", "G", "H", "I", "J", "K", "L", "M", "N", "O",
     "P", "Q", "R", "S", "T", "U", "V", "W", "X", "Y", "Z", "[", "\\", "]", "^", "_",
     "<grave>", "a", "b", "c", "d", "e", "f", "g", "h", "i", "j", "k", "l", "m", "n", "o",
     "p", "q", "r", "s", "t", "u", "v", "w", "x", "y", "z", "{", "|", "}", "~" >>

\* the two-byte character of the model (U+00E9)
EAcute == "<e-acute>"

\* str.encode(), one character: UTF-8
EncodeChar(c) ==
  IF c = "\n" THEN <<10>>
  ELSE IF c = "\t" THEN <<9>>
  ELSE IF c = EAcute THEN <<195, 169>>
  ELSE <<31 + CHOOSE i \in 1..Len(Ascii) : Ascii[i] = c>>

RECURSIVE encode(_)
\* str.encode(): UTF-8
encode(s) == IF s = <<>> THEN <<>> ELSE EncodeChar(Head(s)) \o encode(Tail(s))

RECURSIVE decode_acc(_, _)
\* bytes.decode(utf-8): the decoded str, or raised on a byte sequence that is not UTF-8
decode_acc(b, out) ==
  IF b = <<>> THEN [raised |-> FALSE, str |-> out]
  ELSE IF Head(b) = 10 THEN decode_acc(Tail(b), Append(out, "\n"))
  ELSE IF Head(b) = 9 THEN decode_acc(Tail(b), Append(out, "\t"))
  ELSE IF Head(b) \in 32..126 THEN decode_acc(Tail(b), Append(out, Ascii[Head(b) - 31]))
  ELSE IF Head(b) = 195 /\ Len(b) >= 2 /\ b[2] = 169
  THEN decode_acc(Tail(Tail(b)), Append(out, EAcute))
  ELSE [raised |-> TRUE, str |-> <<>>]

decode(b) == decode_acc(b, <<>>)

\* read_text: file.getvalue().decode(utf-8)
read_text(bytes) == decode(bytes)

\* read_doc: Document(file) raises on a file that is no docx; else the
\* paragraphs' texts joined by single spaces
read_doc(ok, paragraphs) ==
  IF ~ok THEN [raised |-> TRUE, str |-> <<>>]
  ELSE [raised |-> FALSE, str |-> join(<<" ">>, paragraphs)]

\* read_pdf: PdfReader(file) raises on a file that is no PDF; else the texts
\* of the pages whose extract_text() is truthy, joined by single spaces
read_pdf(ok, pages) ==
  IF ~ok THEN [raised |-> TRUE, str |-> <<>>]
  ELSE [raised |-> FALSE,
        str |-> join(<<" ">>, SelectSeq(pages, LAMBDA page_text : page_text # <<>>))]

\* ---- pandas.read_csv on a file that parses: a frame of cells, "" a missing cell
IsDigit(c) == c \in {"0", "1", "2", "3", "4", "5", "6", "7", "8", "9"}
IsMissing(cell) == cell = <<>>
IsNumeric(cell) == cell # <<>> /\ \A i \in 1..Len(cell) : IsDigit(cell[i])
IsBool(cell) == cell \in {<<"t", "r", "u", "e">>, <<"T", "r", "u", "e">>}

\* column j of the frame, top to bottom
Column(frame, j) == [r \in 1..Len(frame.rows) |-> frame.rows[r][j]]

\* the dtype read_csv infers for a column
dtype(col) ==
  IF col = <<>> THEN "object"
  ELSE IF \A r \in 1..Len(col) : IsMissing(col[r]) \/ IsNumeric(col[r]) THEN "number"
  ELSE IF \A r \in 1..Len(col) : IsBool(col[r]) THEN "bool"
  ELSE "object"

\* df[col].astype(str) of an object column: a missing cell is NaN, "nan"; a
\* column of booleans and missing cells holds True and NaN
astype_str(col) ==
  LET boolish == \A r \in 1..Len(col) : IsBool(col[r]) \/ IsMissing(col[r])
  IN [r \in 1..Len(col) |->
        IF IsMissing(col[r]) THEN <<"n", "a", "n">>
        ELSE IF boolish THEN <<"T", "r", "u", "e">>
        ELSE col[r]]

\* df.select_dtypes(include=[object]).columns, in frame order
select_dtypes_object(frame) ==
  SelectSeq([j \in 1..frame.ncols |-> j], LAMBDA j : dtype(Column(frame, j)) = "object")

CsvError == "Error reading CSV file"

\* read_csv concatenating row by row instead of column by column
read_csv_row_major(ok, frame) ==
  IF ~ok THEN [raised |-> FALSE, str |-> <<>>, errors |-> <<CsvError>>]
  ELSE
    LET text_columns == select_dtypes_object(frame)
        cols == [k \in 1..Len(text_columns) |-> astype_str(Column(frame, text_columns[k]))]
        rowtext(r) == join(<<" ">>, [k \in 1..Len(cols) |-> cols[k][r]])
    IN [raised |-> FALSE, errors |-> <<>>,
        str |-> IF cols = <<>> THEN <<>>
                ELSE join(<<" ">>, [r \in 1..Len(frame.rows) |-> rowtext(r)])]

\* read_csv without its try/except
read_csv_uncaught(ok, frame) ==
  IF ~ok THEN [raised |-> TRUE, str |-> <<>>, errors |-> <<>>]
  ELSE
    LET text_columns == select_dtypes_object(frame)
    IN [raised |-> FALSE, errors |-> <<>>,
        str |-> join(<<" ">>, [k \in 1..Len(text_columns) |->
                  join(<<" ">>, astype_str(Column(frame, text_columns[k])))])]

\* read_csv: any exception of pd.read_csv (or of the lines after it) is
\* caught, reported with st.error, and "" returned; else every object column's
\* cells are concatenated (str.cat), and the columns' strings joined
read_csv(ok, frame) ==
  IF ~ok THEN [raised |-> FALSE, str |-> <<>>, errors |-> <<CsvError>>]
  ELSE
    LET text_columns == select_dtypes_object(frame)
    IN [raised |-> FALSE, errors |-> <<>>,
        str |-> join(<<" ">>, [k \in 1..Len(text_columns) |->
                  join(<<" ">>, astype_str(Column(frame, text_columns[k])))])]

\* ------------------------------------------------ frequency summary
\* the permutations of 1..n
Perms(n) == {p \in [1..n -> 1..n] : \A i, j \in 1..n : p[i] = p[j] => i = j}

\* df rearranged by the indexer p
Take(df, p) == [i \in 1..Len(df) |-> df[p[i]]]

\* sort_values without ascending=False
sort_values_ascending(df) ==
  {Take(df, p) : p \in {q \in Perms(Len(df)) :
      \A i, j \in 1..Len(df) : i < j => df[q[i]].Frequency <= df[q[j]].Frequency}}

\* freq_df.sort_values('Frequency', ascending=False): kind defaults to
\* 'quicksort', which pandas documents as not stable, so the result is any
\* arrangement of the rows with non-increasing Frequency
sort_values(df) ==
  {Take(df, p) : p \in {q \in Perms(Len(df)) :
      \A i, j \in 1..Len(df) : i < j => df[q[i]].Frequency >= df[q[j]].Frequency}}

\* ----------------------------------------------------------- export
B64Chars ==
  << "A", "B", "C", "D", "E", "F", "G", "H", "I", "J", "K", "L", "M", "N", "O", "P",
     "Q", "R", "S", "T", "U", "V", "W", "X", "Y", "Z", "a", "b", "c", "d", "e", "f",
     "g", "h", "i", "j", "k", "l", "m", "n", "o", "p", "q", "r", "s", "t", "u", "v",
     "w", "x", "y", "z", "0", "1", "2", "3", "4", "5", "6", "7", "8", "9", "+", "/" >>

RECURSIVE b64encode(_)
\* base64.b64encode(b).decode(): three bytes to four characters, "=" padding
b64encode(b) ==
  IF b = <<>> THEN <<>>
  ELSE IF Len(b) = 1
  THEN << B64Chars[(b[1] \div 4) + 1], B64Chars[((b[1] % 4) * 16) + 1], "=", "=" >>
  ELSE IF Len(b) = 2
  THEN << B64Chars[(b[1] \div 4) + 1],
          B64Chars[((b[1] % 4) * 16 + (b[2] \div 16)) + 1],
          B64Chars[((b[2] % 16) * 4) + 1], "=" >>
  ELSE << B64Chars[(b[1] \div 4) + 1],
          B64Chars[((b[1] % 4) * 16 + (b[2] \div 16)) + 1],
          B64Chars[((b[2] % 16) * 4 + (b[3] \div 64)) + 1],
          B64Chars[(b[3] % 64) + 1] >> \o b64encode(SubSeq(b, 4, Len(b)))

Digit(d) == Ascii[17 + d]

RECURSIVE int_str(_)
int_str(n) == IF n < 10 THEN <<Digit(n)>> ELSE Append(int_str(n \div 10), Digit(n % 10))

\* str(float) of the weight w / 100: the shortest decimal that reads back
float_str(w) ==
  int_str(w \div 100) \o <<".">> \o
    (IF w % 10 = 0 THEN <<Digit((w % 100) \div 10)>>
     ELSE <<Digit((w % 100) \div 10), Digit(w % 10)>>)

RECURSIVE double_quotes(_)
double_quotes(s) ==
  IF s = <<>> THEN <<>>
  ELSE IF Head(s) = "\"" THEN <<"\"", "\"">> \o double_quotes(Tail(s))
  ELSE <<Head(s)>> \o double_quotes(Tail(s))

\* a field written as it is, never quoted
csv_field_unquoted(s) == s

\* csv.writer, QUOTE_MINIMAL: a field holding the delimiter, the quote
\* character or a line break is quoted, its quote characters doubled
csv_field(s) ==
  IF \E i \in 1..Len(s) : s[i] \in {",", "\"", "\n", "\r"}
  THEN <<"\"">> \o double_quotes(s) \o <<"\"">>
  ELSE s

CsvHeader == <<"W", "o", "r", "d", ",", "F", "r", "e", "q", "u", "e", "n", "c", "y", "\n">>

RECURSIVE to_csv_rows(_)
to_csv_rows(df) ==
  IF df = <<>> THEN <<>>
  ELSE csv_field(Head(df).Word) \o <<",">> \o float_str(Head(df).Frequency) \o <<"\n">>
       \o to_csv_rows(Tail(df))

\* df.to_csv(index=False): the header line, then one line per row
to_csv(df) == CsvHeader \o to_csv_rows(df)

\* get_plot_download_link, after plot.savefig wrote the PNG bytes to buf
get_plot_download_link(png, filename) ==
  [mime |-> "file/png", encoding |-> "base64", data |-> b64encode(png),
   download |-> filename, label |-> "Download Plot"]

\* get_df_download_link
get_df_download_link(df, filename) ==
  LET csv == to_csv(df)
      b64 == b64encode(encode(csv))
  IN [mime |-> "file/csv", encoding |-> "base64", data |-> b64,
      download |-> filename, label |-> "Download CSV File"]

\* ------------------------------------------------------------ state
VARIABLES
  pc,                   \* position in the script
  has_file,             \* uploaded_file is not None
  file_type,            \* uploaded_file.type
  file_ext,             \* extension of uploaded_file.name
  file_ok,              \* the format library can open the file
  body,                 \* the file's bytes (plain text)
  parts,                \* paragraph texts (docx) or page texts (pdf)
  frame,                \* the parsed table (csv)
  custom_stopwords,     \* the sidebar text area
  additional_stopwords, \* list built from custom_stopwords
  text,                 \* the extracted text
  errors,               \* st.error messages, in order
  calls,                \* pipeline stages entered, in order
  filtered_text,
  refiltered_text,      \* filter_stopwords applied to its own output
  png,                  \* bytes savefig wrote
  word_freq,            \* wordcloud.words_, in insertion order
  freq_df,              \* the frequency table
  plot_href,
  df_href

vars ==
  << pc, has_file, file_type, file_ext, file_ok, body, parts, frame,
     custom_stopwords, additional_stopwords, text, errors, calls, filtered_text,
     refiltered_text, png, word_freq, freq_df, plot_href, df_href >>

upload == << has_file, file_type, file_ext, file_ok, body, parts, frame >>
results == << filtered_text, refiltered_text, png, word_freq, freq_df, plot_href, df_href >>

NoFrame == [ncols |-> 0, rows |-> <<>>]
NoLink == [mime |-> "", encoding |-> "", data |-> <<>>, download |-> "", label |-> ""]

DocxType == "application/vnd.openxmlformats-officedocument.wordprocessingml.document"
EmptyError == "The uploaded file appears to be empty or couldn't be read properly."
UnsupportedError == "Unsupported file type"

\* ----------------------------------------------------------- inputs
StopAlphabet == {"a", "T", ",", " "}
TextBodies ==
  { <<>>, <<32>>, <<10>>, <<97>>, <<98>>, <<65, 32, 98>>, <<98, 32, 32, 99>>,
    <<195, 169>>, <<255>> }
PartTexts == {<<>>, <<" ">>, <<"b">>}
PartLists == UNION {[1..k -> PartTexts] : k \in 0..MaxParts}
SampleFrames ==
  { [ncols |-> 1, rows |-> << <<<<"b">>>> >>],
    [ncols |-> 1, rows |-> << <<<<"7">>>> >>],
    [ncols |-> 2, rows |-> <<>>],
    [ncols |-> 2, rows |-> << <<<<"b">>, <<"7">>>>, <<<<>>, <<"8">>>> >>] }
PngSamples == {<<137, 80, 78, 71>>}
Entry(w, f) == [Word |-> w, Frequency |-> f]
EngineMappings ==
  { <<Entry(<<"b">>, 100)>>,
    <<Entry(<<"b">>, 100), Entry(<<"c">>, 100)>>,
    <<Entry(<<"c">>, 100), Entry(<<"b">>, 50)>> }

InitRest ==
  /\ pc = "start"
  /\ additional_stopwords = <<>>
  /\ text = <<>>
  /\ errors = <<>>
  /\ calls = <<>>
  /\ filtered_text = <<>>
  /\ refiltered_text = <<>>
  /\ png = <<>>
  /\ word_freq = <<>>
  /\ freq_df = <<>>
  /\ plot_href = NoLink
  /\ df_href = NoLink

NoUpload ==
  /\ has_file = FALSE /\ file_type = "" /\ file_ext = "" /\ file_ok = FALSE
  /\ body = <<>> /\ parts = <<>> /\ frame = NoFrame

InitUpload ==
  \/ NoUpload
  \/ /\ has_file = TRUE /\ file_ok = TRUE /\ parts = <<>> /\ frame = NoFrame
     /\ file_type = "text/plain" /\ file_ext = "txt" /\ body \in TextBodies
  \/ /\ has_file = TRUE /\ body = <<>> /\ frame = NoFrame
     /\ \/ file_type = DocxType /\ file_ext = "docx"
        \/ file_type = "application/pdf" /\ file_ext = "pdf"
     /\ \/ file_ok = TRUE /\ parts \in PartLists
        \/ file_ok = FALSE /\ parts = <<>>
  \/ /\ has_file = TRUE /\ body = <<>> /\ parts = <<>>
     /\ file_type \in {"text/csv", "application/vnd.ms-excel"} /\ file_ext = "csv"
     /\ \/ file_ok = TRUE /\ frame \in SampleFrames
        \/ file_ok = FALSE /\ frame = NoFrame
  \/ /\ has_file = TRUE /\ file_ok = TRUE /\ body = <<>> /\ parts = <<>> /\ frame = NoFrame
     /\ file_type = "application/octet-stream" /\ file_ext \in {"txt", "docx", "pdf"}

Init ==
  /\ custom_stopwords \in StrsUpTo(StopAlphabet, MaxStopLen)
  /\ InitUpload
  /\ InitRest

\* ------------------------------------------------------- the script
\* [word.strip() for word in custom_stopwords.split(",")] if custom_stopwords else []
parse_stopwords(s) ==
  IF s = <<>> THEN <<>>
  ELSE LET fields == split_sep(s, ",") IN [i \in 1..Len(fields) |-> strip(fields[i])]

\* lines 82-86: the sidebar is read, then the upload is looked at
Sidebar ==
  /\ pc = "start"
  /\ additional_stopwords' = parse_stopwords(custom_stopwords)
  /\ pc' = IF has_file THEN "dispatch" ELSE "done"
  /\ UNCHANGED << upload, custom_stopwords, text, errors, calls, results >>

\* what one extractor did: the text, or the exception that ends the run
Extracted(reader, r, more_errors) ==
  /\ pc' = IF r.raised THEN "read_raised" ELSE "extracted"
  /\ text' = r.str
  /\ errors' = errors \o more_errors
  /\ calls' = Append(calls, reader)
  /\ UNCHANGED << upload, custom_stopwords, additional_stopwords, results >>

ReadText ==
  /\ pc = "dispatch"
  /\ file_type = "text/plain"
  /\ Extracted("read_text", read_text(body), <<>>)

ReadDoc ==
  /\ pc = "dispatch"
  /\ file_type # "text/plain"
  /\ file_type = DocxType
  /\ Extracted("read_doc", read_doc(file_ok, parts), <<>>)

ReadPdf ==
  /\ pc = "dispatch"
  /\ file_type \notin {"text/plain", DocxType}
  /\ file_type = "application/pdf"
  /\ Extracted("read_pdf", read_pdf(file_ok, parts), <<>>)

ReadCsv ==
  /\ pc = "dispatch"
  /\ file_type \notin {"text/plain", DocxType, "application/pdf"}
  /\ (file_type = "text/csv" \/ file_ext = "csv")
  /\ LET r == read_csv(file_ok, frame) IN Extracted("read_csv", r, r.errors)

\* st.error("Unsupported file type"); st.stop()
Unsupported ==
  /\ pc = "dispatch"
  /\ file_type \notin {"text/plain", DocxType, "application/pdf", "text/csv"}
  /\ file_ext # "csv"
  /\ errors' = Append(errors, UnsupportedError)
  /\ pc' = "done"
  /\ UNCHANGED << upload, custom_stopwords, additional_stopwords, text, calls, results >>

\* not text
is_empty_unstripped(t) == t = <<>>

\* not text.strip()
is_empty(t) == strip(t) = <<>>

EmptyCheck ==
  /\ pc = "extracted"
  /\ is_empty(text)
  /\ errors' = Append(errors, EmptyError)
  /\ pc' = "done"
  /\ UNCHANGED << upload, custom_stopwords, additional_stopwords, text, calls, results >>

\* lines 103-109: the preview expander only displays text; then the filter runs
Filter ==
  /\ pc = "extracted"
  /\ ~is_empty(text)
  /\ filtered_text' = filter_stopwords(text, additional_stopwords)
  /\ calls' = Append(calls, "filter_stopwords")
  /\ pc' = "filtered"
  /\ UNCHANGED << upload, custom_stopwords, additional_stopwords, text, errors,
                  refiltered_text, png, word_freq, freq_df, plot_href, df_href >>

\* WordCloud(...).generate(filtered_text): the engine tokenizes the text itself
\* and weighs the words it finds, or raises ValueError when it finds none
\* (always so for a text without tokens)
Generate ==
  /\ pc = "filtered"
  /\ calls' = Append(calls, "generate")
  /\ \/ /\ split(filtered_text) # <<>>
        /\ word_freq' \in EngineMappings
        /\ pc' = "generated"
     \/ /\ word_freq' = word_freq
        /\ pc' = "generate_raised"
  /\ UNCHANGED << upload, custom_stopwords, additional_stopwords, text, errors,
                  filtered_text, refiltered_text, png, freq_df, plot_href, df_href >>

\* lines 121-127: the figure is drawn and its download link written
PlotLink ==
  /\ pc = "generated"
  /\ png' \in PngSamples
  /\ plot_href' = get_plot_download_link(png', "wordcloud.png")
  /\ calls' = Append(calls, "get_plot_download_link")
  /\ pc' = "plotted"
  /\ UNCHANGED << upload, custom_stopwords, additional_stopwords, text, errors,
                  filtered_text, refiltered_text, word_freq, freq_df, df_href >>

\* lines 131-133: pd.DataFrame(list(word_freq.items())) and sort_values
Summarize ==
  /\ pc = "plotted"
  /\ freq_df' \in sort_values(word_freq)
  /\ calls' = Append(calls, "summarize")
  /\ pc' = "summarized"
  /\ UNCHANGED << upload, custom_stopwords, additional_stopwords, text, errors,
                  filtered_text, refiltered_text, png, word_freq, plot_href, df_href >>

\* line 142
DfLink ==
  /\ pc = "summarized"
  /\ df_href' = get_df_download_link(freq_df, "word_frequencies.csv")
  /\ calls' = Append(calls, "get_df_download_link")
  /\ pc' = "done"
  /\ UNCHANGED << upload, custom_stopwords, additional_stopwords, text, errors,
                  filtered_text, refiltered_text, png, word_freq, freq_df, plot_href >>

Next ==
  \/ Sidebar
  \/ ReadText
  \/ ReadDoc
  \/ ReadPdf
  \/ ReadCsv
  \/ Unsupported
  \/ EmptyCheck
  \/ Filter
  \/ Generate
  \/ PlotLink
  \/ Summarize
  \/ DfLink

Spec == Init /\ [][Next]_vars

\* ------------------------------------------- component specifications
\* filter_stopwords on every text over a small alphabet, applied once and
\* then to its own output
FilterAlphabet == {"a", "A", "b", ",", " ", "\n"}
StopLists ==
  { <<>>, << <<"b">> >>, << <<"A">> >>, << <<"a", ",">> >>, << <<>>, <<"b">> >> }

InitFilter ==
  /\ NoUpload
  /\ pc = "filter"
  /\ custom_stopwords = <<>>
  /\ additional_stopwords \in StopLists
  /\ text \in StrsUpTo(FilterAlphabet, MaxTextLen)
  /\ errors = <<>> /\ calls = <<>>
  /\ filtered_text = <<>> /\ refiltered_text = <<>>
  /\ png = <<>> /\ word_freq = <<>> /\ freq_df = <<>>
  /\ plot_href = NoLink /\ df_href = NoLink

ApplyFilter ==
  /\ pc = "filter"
  /\ filtered_text' = filter_stopwords(text, additional_stopwords)
  /\ pc' = "filtered_once"
  /\ UNCHANGED << upload, custom_stopwords, additional_stopwords, text, errors, calls,
                  refiltered_text, png, word_freq, freq_df, plot_href, df_href >>

ApplyFilterAgain ==
  /\ pc = "filtered_once"
  /\ refiltered_text' = filter_stopwords(filtered_text, additional_stopwords)
  /\ pc' = "filtered_twice"
  /\ UNCHANGED << upload, custom_stopwords, additional_stopwords, text, errors, calls,
                  filtered_text, png, word_freq, freq_df, plot_href, df_href >>

NextFilter ==
  \/ ApplyFilter
  \/ ApplyFilterAgain

SpecFilter == InitFilter /\ [][NextFilter]_vars

\* read_csv on every small table: the script at its dispatch, a csv uploaded
CellValues == {<<"x">>, <<"7">>, <<>>, <<"t", "r", "u", "e">>}
ColumnCounts == {1, 2}
Frames ==
  UNION {{[ncols |-> c, rows |-> rs] :
            rs \in UNION {[1..n -> [1..c -> CellValues]] : n \in 0..MaxRows}} :
         c \in ColumnCounts}

InitCsv ==
  /\ has_file = TRUE /\ file_type = "text/csv" /\ file_ext = "csv"
  /\ body = <<>> /\ parts = <<>>
  /\ \/ file_ok = TRUE /\ frame \in Frames
     \/ file_ok = FALSE /\ frame = NoFrame
  /\ pc = "dispatch"
  /\ custom_stopwords = <<>> /\ additional_stopwords = <<>>
  /\ text = <<>> /\ errors = <<>> /\ calls = <<>>
  /\ filtered_text = <<>> /\ refiltered_text = <<>>
  /\ png = <<>> /\ word_freq = <<>> /\ freq_df = <<>>
  /\ plot_href = NoLink /\ df_href = NoLink

NextCsv == ReadCsv

SpecCsv == InitCsv /\ [][NextCsv]_vars

\* the frequency table of every small mapping: the script before line 131
SummaryWords == {<<"b">>, <<"c">>, <<"d">>, <<"e">>}
SummaryWeights == {25, 50, 100}
Distinct(df) == \A i, j \in 1..Len(df) : df[i].Word = df[j].Word => i = j
Mappings(words, weights) ==
  {m \in UNION {[1..n -> [Word : words, Frequency : weights]] : n \in 0..MaxWords} :
     Distinct(m)}

InitSummarize ==
  /\ NoUpload
  /\ pc = "plotted"
  /\ custom_stopwords = <<>> /\ additional_stopwords = <<>>
  /\ text = <<>> /\ errors = <<>> /\ calls = <<>>
  /\ filtered_text = <<>> /\ refiltered_text = <<>>
  /\ png = <<>> /\ freq_df = <<>>
  /\ word_freq \in Mappings(SummaryWords, SummaryWeights)
  /\ plot_href = NoLink /\ df_href = NoLink

NextSummarize == Summarize

SpecSummarize == InitSummarize /\ [][NextSummarize]_vars

\* the table export of every small frequency table: the script before line 142
ExportWords ==
  { <<"b">>, <<"q", "\"">>, <<EAcute>>,
    <<"h", "e", "l", "l", "o", ",", " ", "w", "o", "r", "l", "d">> }
ExportWeights == {50, 100, 500}
NonIncreasing(df) == \A i, j \in 1..Len(df) : i < j => df[i].Frequency >= df[j].Frequency

InitExport ==
  /\ NoUpload
  /\ pc = "summarized"
  /\ custom_stopwords = <<>> /\ additional_stopwords = <<>>
  /\ text = <<>> /\ errors = <<>> /\ calls = <<>>
  /\ filtered_text = <<>> /\ refiltered_text = <<>>
  /\ png = <<>> /\ word_freq = <<>>
  /\ freq_df \in {m \in Mappings(ExportWords, ExportWeights) : NonIncreasing(m)}
  /\ plot_href = NoLink /\ df_href = NoLink

NextExport == DfLink

SpecExport == InitExport /\ [][NextExport]_vars

\* ------------------------------------------------------------ claims
\* the whitespace-delimited tokens of s, stated by position: a token starts
\* where a non-space character follows the start or a space, and runs to the
\* last non-space character before the next space
TokenStarts(s) == {i \in 1..Len(s) : ~IsSpace(s[i]) /\ (i = 1 \/ IsSpace(s[i - 1]))}
TokenEnd(s, i) == CHOOSE j \in i..Len(s) :
  /\ \A k \in i..j : ~IsSpace(s[k])
  /\ (j = Len(s) \/ IsSpace(s[j + 1]))
Tokens(s) ==
  [k \in 1..Cardinality(TokenStarts(s)) |->
     LET i == CHOOSE i \in TokenStarts(s) :
                Cardinality({h \in TokenStarts(s) : h < i}) = k - 1
     IN SubSeq(s, i, TokenEnd(s, i))]
ActiveStopwords == STOPWORDS \cup ToSet(additional_stopwords)
Retained(s) == SelectSeq(Tokens(s), LAMBDA w : lower(w) \notin ActiveStopwords)
SumLen(ws) == IF ws = <<>> THEN 0 ELSE Len(join(<<>>, ws)) + Len(ws) - 1

\* C1: filter_stopwords(T, S) is exactly the tokens of T whose lowercased form
\* is not in STOPWORDS \cup S, in their order and casing, joined by single
\* spaces; so it has no more tokens than T, no token whose lowercased form is a
\* stopword, and the empty text gives the empty text.
C1_FilterExact ==
  pc \in {"filtered_once", "filtered_twice"} =>
    /\ Tokens(filtered_text) = Retained(text)
    /\ Len(filtered_text) = SumLen(Retained(text))
    /\ \A i \in 1..Len(filtered_text) : IsSpace(filtered_text[i]) => filtered_text[i] = " "
    /\ Len(Tokens(filtered_text)) <= Len(Tokens(text))
    /\ \A k \in 1..Len(Tokens(filtered_text)) :
         lower(Tokens(filtered_text)[k]) \notin ActiveStopwords
    /\ (text = <<>> => filtered_text = <<>>)

\* a text with an upper-case default stopword, a custom stopword and a token
\* that stays was filtered
C1_Witness ==
  /\ pc = "filtered_once"
  /\ \E k \in 1..Len(Tokens(text)) : Tokens(text)[k] = <<"A">>
  /\ \E k \in 1..Len(Tokens(text)) : Tokens(text)[k] \in ToSet(additional_stopwords)
  /\ filtered_text # <<>>

\* C9: filtering the filtered text again with the same stopwords changes nothing.
C9_Idempotent == pc = "filtered_twice" => refiltered_text = filtered_text

\* the first pass removed a token and kept one, and the second pass ran
C9_Witness ==
  /\ pc = "filtered_twice"
  /\ filtered_text # <<>>
  /\ Len(Tokens(filtered_text)) < Len(Tokens(text))
  /\ \E i \in 1..Len(filtered_text) : filtered_text[i] = "A"

\* the set S of numbers as an increasing sequence
Ascending(S) ==
  [k \in 1..Cardinality(S) |-> CHOOSE j \in S : Cardinality({h \in S : h < j}) = k - 1]

\* the columns read_csv selects: with no data row every column; else the
\* columns with a cell that is neither missing nor a number, unless all of the
\* column's cells are booleans
TextColumns(f) ==
  Ascending({j \in 1..f.ncols :
    \/ f.rows = <<>>
    \/ /\ \E r \in 1..Len(f.rows) : ~IsMissing(f.rows[r][j]) /\ ~IsNumeric(f.rows[r][j])
       /\ \E r \in 1..Len(f.rows) : ~IsBool(f.rows[r][j])})
CellStr(f, r, j) == astype_str(Column(f, j))[r]
ColumnMajor(f) ==
  LET n == Len(f.rows)
      sel == TextColumns(f)
  IN [k \in 1..(n * Len(sel)) |-> CellStr(f, ((k - 1) % n) + 1, sel[((k - 1) \div n) + 1])]
RowMajor(f) ==
  LET n == Len(f.rows)
      sel == TextColumns(f)
      m == Len(sel)
  IN [k \in 1..(n * m) |-> CellStr(f, ((k - 1) \div m) + 1, sel[((k - 1) % m) + 1])]
Spaces(n) == [i \in 1..n |-> " "]
CsvParsed == pc = "extracted" /\ file_ext = "csv" /\ file_ok

C4_ParseFailureCaught ==
  (has_file /\ file_ext = "csv" /\ ~file_ok /\ pc # "start" /\ pc # "dispatch") =>
    /\ pc \in {"extracted", "done"}
    /\ text = <<>>
    /\ calls = <<"read_csv">>
    /\ (pc = "extracted" => errors = <<CsvError>>)
    /\ (pc = "done" => errors = <<CsvError, EmptyError>>)

\* an unparseable csv, declared as application/vnd.ms-excel, ran to the end
C4_Witness ==
  /\ pc = "done"
  /\ file_type = "application/vnd.ms-excel"
  /\ ~file_ok
  /\ errors = <<CsvError, EmptyError>>

Readers == {"read_text", "read_doc", "read_pdf", "read_csv"}
TextExtracted ==
  /\ calls # <<>>
  /\ calls[1] \in Readers
  /\ pc # "read_raised"
Blank(t) == \A i \in 1..Len(t) : IsSpace(t[i])

\* C2: when the extracted text is empty or all whitespace, the empty-content
\* error is reported and the run ends there: no exception, and the filter,
\* the layout engine, the summary and both exports are never entered.
C2_EmptyContentHalts ==
  (TextExtracted /\ Blank(text)) =>
    /\ pc \in {"extracted", "done"}
    /\ Len(calls) = 1
    /\ (pc = "extracted" => ENABLED EmptyCheck /\ ~ENABLED Filter)
    /\ (pc = "done" => errors # <<>> /\ errors[Len(errors)] = EmptyError /\ ~ENABLED Next)

\* a PDF of two pages, neither with extractable text, ended with the error
C2_Witness ==
  /\ pc = "done"
  /\ file_type = "application/pdf"
  /\ parts = << <<>>, <<>> >>
  /\ errors = <<EmptyError>>

\* C10: the custom tokens handed to the filter are trimmed, non-empty and
\* lower case.
C10_CustomTokensClean ==
  (\E i \in 1..Len(calls) : calls[i] = "filter_stopwords") =>
    \A w \in ToSet(additional_stopwords) : w # <<>> /\ strip(w) = w /\ lower(w) = w

\* C8: the image link is labelled image/png and the table link text/csv, each
\* followed by the base64 encoding of its payload.
C8_MimeTypes ==
  /\ (\E i \in 1..Len(calls) : calls[i] = "get_plot_download_link") =>
       /\ plot_href.mime = "image/png"
       /\ plot_href.encoding = "base64"
       /\ plot_href.data = b64encode(png)
  /\ (\E i \in 1..Len(calls) : calls[i] = "get_df_download_link") =>
       /\ df_href.mime = "text/csv"
       /\ df_href.encoding = "base64"
       /\ df_href.data = b64encode(encode(to_csv(freq_df)))

Count(df, e) == Cardinality({i \in 1..Len(df) : df[i] = e})
Position(df, w) == CHOOSE i \in 1..Len(df) : df[i].Word = w

\* C5: the frequency table is a permutation of the mapping's entries with
\* non-increasing weights.
C5_SortedPermutation ==
  pc = "summarized" =>
    /\ Len(freq_df) = Len(word_freq)
    /\ \A i \in 1..Len(word_freq) : Count(freq_df, word_freq[i]) = Count(word_freq, word_freq[i])
    /\ \A i \in 1..(Len(freq_df) - 1) : freq_df[i].Frequency >= freq_df[i + 1].Frequency

\* a mapping of three entries that was not in order was summarized
C5_Witness ==
  /\ pc = "summarized"
  /\ Len(word_freq) = 3
  /\ word_freq[1].Frequency < word_freq[2].Frequency
  /\ freq_df # word_freq

\* C6: entries of equal weight keep the mapping's insertion order.
C6_Stable ==
  pc = "summarized" =>
    \A i, j \in 1..Len(word_freq) :
      (i < j /\ word_freq[i].Frequency = word_freq[j].Frequency) =>
        Position(freq_df, word_freq[i].Word) < Position(freq_df, word_freq[j].Word)

\* ---- the reader of a downloaded table: base64, UTF-8, then RFC 4180 CSV
B64Value(c) == CHOOSE v \in 0..63 : B64Chars[v + 1] = c

RECURSIVE b64decode(_)
b64decode(s) ==
  IF Len(s) < 4 THEN <<>>
  ELSE LET v1 == B64Value(s[1])
           v2 == B64Value(s[2])
       IN IF s[3] = "=" THEN <<v1 * 4 + (v2 \div 16)>>
          ELSE IF s[4] = "="
          THEN <<v1 * 4 + (v2 \div 16), (v2 % 16) * 16 + (B64Value(s[3]) \div 4)>>
          ELSE <<v1 * 4 + (v2 \div 16), (v2 % 16) * 16 + (B64Value(s[3]) \div 4),
                 (B64Value(s[3]) % 4) * 64 + B64Value(s[4])>>
               \o b64decode(SubSeq(s, 5, Len(s)))

RECURSIVE csv_rows(_, _, _, _, _)
\* st: "start" (at the start of a field), "plain" (in an unquoted field),
\* "quoted" (in a quoted field), "quote" (after a quote inside a quoted field)
csv_rows(s, st, field, row, rows) ==
  IF s = <<>>
  THEN IF st = "start" /\ row = <<>> THEN rows ELSE Append(rows, Append(row, field))
  ELSE LET c == Head(s)
           rest == Tail(s)
       IN IF st = "quoted"
          THEN IF c = "\"" THEN csv_rows(rest, "quote", field, row, rows)
               ELSE csv_rows(rest, "quoted", Append(field, c), row, rows)
          ELSE IF c = "\"" /\ st = "start" THEN csv_rows(rest, "quoted", field, row, rows)
          ELSE IF c = "\"" /\ st = "quote"
          THEN csv_rows(rest, "quoted", Append(field, c), row, rows)
          ELSE IF c = "," THEN csv_rows(rest, "start", <<>>, Append(row, field), rows)
          ELSE IF c = "\n"
          THEN csv_rows(rest, "start", <<>>, <<>>, Append(rows, Append(row, field)))
          ELSE csv_rows(rest, "plain", Append(field, c), row, rows)

parse_csv(s) == csv_rows(s, "start", <<>>, <<>>, <<>>)

DigitValue(c) == CHOOSE d \in 0..9 : Digit(d) = c

RECURSIVE parse_int(_)
parse_int(s) ==
  IF s = <<>> THEN 0 ELSE 10 * parse_int(SubSeq(s, 1, Len(s) - 1)) + DigitValue(s[Len(s)])

\* float(s), in hundredths
parse_float(s) ==
  LET dot == CHOOSE i \in 1..Len(s) : s[i] = "."
      frac == SubSeq(s, dot + 1, Len(s))
  IN 100 * parse_int(SubSeq(s, 1, dot - 1))
     + (IF Len(frac) = 1 THEN 10 * parse_int(frac) ELSE parse_int(frac))

Downloaded == parse_csv(decode(b64decode(df_href.data)).str)

\* C7: decoding the table link's base64 payload and parsing it as CSV gives
\* the header Word,Frequency and then exactly the table's (word, weight) pairs
\* in the table's order, also for a word holding a comma.
C7_TableRoundTrip ==
  (pc = "done" /\ df_href # NoLink) =>
    /\ ~decode(b64decode(df_href.data)).raised
    /\ Len(Downloaded) = Len(freq_df) + 1
    /\ Downloaded[1] = << <<"W", "o", "r", "d">>,
                          <<"F", "r", "e", "q", "u", "e", "n", "c", "y">> >>
    /\ \A i \in 1..Len(freq_df) :
         /\ Len(Downloaded[i + 1]) = 2
         /\ Downloaded[i + 1][1] = freq_df[i].Word
         /\ parse_float(Downloaded[i + 1][2]) = freq_df[i].Frequency

\* the table with the word "hello, world" at frequency 5, and a second row,
\* was exported
C7_Witness ==
  /\ pc = "done"
  /\ df_href # NoLink
  /\ Len(freq_df) >= 2
  /\ freq_df[1] = Entry(<<"h", "e", "l", "l", "o", ",", " ", "w", "o", "r", "l", "d">>, 500)

====
